---- MODULE Spec2Model ----
(***************************************************************************)
(* The ciel-et-terre scraper (src/ciel_et_terre/ciel_et_terre_scraping.py) *)
(* as a state machine: successive runs of the script over a persistent     *)
(* working directory (cached pages, last_downloaded.csv, the dataset).     *)
(*                                                                         *)
(* Python values are tagged records: NaN (a cell never assigned), None,    *)
(* Str(s), IntVal(n), DateCell (a datetime.date object), Datetime.  Texts     *)
(* that the code takes apart (digit strings, duration labels) are          *)
(* sequences of one-character strings.                                     *)
(***************************************************************************)
EXTENDS Integers, Sequences, FiniteSets, TLC

\* ------------------------------------------------------------- bounds
MaxRuns == 2        \* runs of the script over the same working directory
MaxListing == 2     \* list items on the index page
FirstDay == 1       \* the day of the first run
RunGaps == {5, 31}  \* days between two runs (inside / outside the window)

\* ------------------------------------------------------------- values
NaN == [t |-> "NaN"]
None == [t |-> "None"]
Str(s) == [t |-> "str", s |-> s]
IntVal(n) == [t |-> "int", n |-> n]
DateCell(d) == [t |-> "date", day |-> d]
Datetime(y, m) == [t |-> "datetime", year |-> y, month |-> m, dayOfMonth |-> 1]

\* pd.isnull
isnull(s) == s = NaN \/ s = None

\* bool(s) as `if s:` computes it on a cell: None is false, nan is true, and
\* a captured string is never empty (every group is a + repetition)
Truthy(s) == s # None

NoErr == [exc |-> "none"]
Raise(exc, line) == [exc |-> exc, line |-> line]

Digits == {"0", "1", "2", "3", "4", "5", "6", "7", "8", "9"}
DigitVal(c) == CASE c = "0" -> 0 [] c = "1" -> 1 [] c = "2" -> 2 [] c = "3" -> 3
                 [] c = "4" -> 4 [] c = "5" -> 5 [] c = "6" -> 6 [] c = "7" -> 7
                 [] c = "8" -> 8 [] c = "9" -> 9

RECURSIVE int(_)
\* int(s) of a digit string
int(s) == IF Len(s) = 0 THEN 0
          ELSE 10 * int(SubSeq(s, 1, Len(s) - 1)) + DigitVal(s[Len(s)])

\* ------------------------------------------------------------- the site
SiteRoot == "http://www.ciel-et-terre.net"
ProjectsDir == "ciel_et_terre_projects/"
StaleDays == 30

\* '{}-{}'.format(name, kwp)
Title(name, kwp) == name \o "-" \o kwp
\* 'ciel_et_terre_projects/{}.html'.format(title)
Path(title) == ProjectsDir \o title \o ".html"

\* A target handed to fetch: whether it starts with the site root, whether
\* a '/' comes next, and the rest of it.
Target(abs, slash, rest) == [abs |-> abs, slash |-> slash, rest |-> rest]
IndexTarget == Target(FALSE, FALSE, "our-floating-solar-power-plants-references/")

\* A list item li.filter-floating-solar-system: the title div (name and
\* capacity label as get_name_kwp splits them) and the anchor's href.
Li(div, name, kwp, a, href) ==
    [div |-> div, name |-> name, kwp |-> kwp, a |-> a, href |-> href]
LiA == Li(TRUE, "Sayreville", "4400 kWp", TRUE, Target(TRUE, TRUE, "sayreville"))
LiA2 == Li(TRUE, "Sayreville", "4400 kWp", TRUE, Target(FALSE, FALSE, "sayreville-2"))
LiB == Li(TRUE, "Umenoki", "7550 kWp", TRUE, Target(FALSE, TRUE, "umenoki"))
LiNoDiv == Li(FALSE, "", "", TRUE, Target(FALSE, TRUE, "untitled"))
LiNoLink == Li(TRUE, "Umenoki", "7550 kWp", FALSE, Target(FALSE, TRUE, ""))
Lis == {LiA, LiA2, LiB, LiNoDiv, LiNoLink}
Titles == {Title(li.name, li.kwp) : li \in {l \in Lis : l.div}}

\* ------------------------------------------------------------- page texts
\* The text of a detail page ('\n'.join(ps)), by what each pattern of the
\* field extractor captures in it (None: no match).  blank: text == ''.
NonDateFields == {"kWp", "location", "water_body_type", "panel_number",
                  "panel_type", "covers_pct", "covers_panels", "covers_total",
                  "max_depth", "level_variation", "construction_duration"}
DecimalColumns == {"covers_pct", "covers_panels", "covers_total", "max_depth",
                   "level_variation"}
Columns == NonDateFields \cup {"interconnection_date"}

NoMatch == [f \in NonDateFields \cup {"effective_in"} |-> None]
BlankText == [blank |-> TRUE, cap |-> NoMatch]
Words(caps) == [blank |-> FALSE, cap |-> caps]

\* the capture of r'effective in ((?:\w+ ){0,1}\d+)': an optional word, digits
Effective(word, digits) == [t |-> "str", word |-> word, digits |-> digits]

FullCaps == [kWp |-> Str(<<"4", "4", "0", "0">>),
             location |-> Str("New Jersey, USA"),
             water_body_type |-> Str("a retention pond"),
             panel_number |-> Str(<<"1", "2">>),
             panel_type |-> Str("270 Wp modules"),
             covers_pct |-> Str("45 "),
             covers_panels |-> Str("3,2"),
             covers_total |-> Str("7"),
             max_depth |-> Str("6,5"),
             level_variation |-> Str("2"),
             effective_in |-> Effective("March", <<"2", "0", "1", "9">>),
             construction_duration |-> Str(<<"3", " ", "d", "a", "y", "s">>)]

FullText == Words(FullCaps)
\* only the year of interconnection is found
SparseText == Words([NoMatch EXCEPT
    !.effective_in = Effective("", <<"2", "0", "1", "9">>)])
\* no capacity, no area figures; a duration in weeks
WeeksText == Words([FullCaps EXCEPT
    !.kWp = None, !.covers_panels = None, !.covers_total = None,
    !.construction_duration = Str(<<"1", "0", " ", "w", "e", "e", "k", "s">>)])
\* no panel count; the singular 'week'
WeekText == Words([FullCaps EXCEPT
    !.panel_number = None, !.location = None,
    !.construction_duration = Str(<<"1", " ", "w", "e", "e", "k">>)])
MonthsText == Words([FullCaps EXCEPT
    !.construction_duration = Str(<<"3", " ", "m", "o", "n", "t", "h", "s">>)])
\* a text no pattern matches
NoDateText == Words(NoMatch)
\* 'effective in early 2019'
BadDateText == Words([FullCaps EXCEPT
    !.effective_in = Effective("early", <<"2", "0", "1", "9">>)])
Texts == {BlankText, FullText, SparseText, WeeksText, WeekText, MonthsText,
          NoDateText, BadDateText}

\* What the site answers to a GET: a status, and for a 200 whether the page
\* has a div.content-article and the paragraph text under it.
Response(status, article, text) ==
    [status |-> status, article |-> article, text |-> text]
SiteResponses == {Response(404, FALSE, BlankText), Response(200, FALSE, BlankText)}
                 \cup {Response(200, TRUE, x) : x \in Texts}

\* The bytes of a local detail file: nothing (opened for writing and never
\* written), or the serialized div.content-article with its text.
EmptyFile == [bytes |-> "empty"]
ArticleFile(text) == [bytes |-> "article", text |-> text]

\* ------------------------------------------------------------- fetch
\* The address fetch requests: the site root is prefixed unless the target
\* starts with it, after a '/' is prefixed unless the target starts with one.
Url(target) ==
    IF target.abs
    THEN SiteRoot \o (IF target.slash THEN "/" ELSE "") \o target.rest
    ELSE SiteRoot \o "/" \o target.rest

\* fetch(target) against the answer resp of the site: the parsed page, or
\* ValueError('Status code ...').
fetch(target, resp) ==
    IF resp.status = 200
    THEN [err |-> NoErr, url |-> Url(target), page |-> resp]
    ELSE [err |-> Raise("ValueError", 26), url |-> Url(target), page |-> resp]

\* get_link(li): the href of a.eg-washington-element-10, or IndexError
get_link(li) ==
    IF li.a THEN [err |-> NoErr, href |-> li.href]
    ELSE [err |-> Raise("IndexError", 35), href |-> li.href]

\* get_name_kwp(li): (name, kwp) of div.esg-center.esg-flipdown, or IndexError
get_name_kwp(li) ==
    IF li.div THEN [err |-> NoErr, name |-> li.name, kwp |-> li.kwp]
    ELSE [err |-> Raise("IndexError", 60), name |-> "", kwp |-> ""]

\* ------------------------------------------------------------- the table
EmptyFn == [x \in {} |-> NaN]
EmptyFrame == [order |-> <<>>, row |-> EmptyFn]
NewRow == [c \in Columns \cup {"source"} |-> NaN]

\* SetLoc with the first write of a label winning: a later write is dropped
SetLoc_first_wins(frame, title, col, v) ==
    IF title \in DOMAIN frame.row
    THEN frame
    ELSE [order |-> Append(frame.order, title),
          row |-> [k \in DOMAIN frame.row \cup {title} |->
                     IF k = title THEN [NewRow EXCEPT ![col] = v]
                     ELSE frame.row[k]]]

\* df.loc[title, col] = v: a new label is appended as a row of NaN cells
SetLoc(frame, title, col, v) ==
    IF title \in DOMAIN frame.row
    THEN [frame EXCEPT !.row[title][col] = v]
    ELSE [order |-> Append(frame.order, title),
          row |-> [k \in DOMAIN frame.row \cup {title} |->
                     IF k = title THEN [NewRow EXCEPT ![col] = v]
                     ELSE frame.row[k]]]

\* df[col] = df[col].apply(f), given the converted cells
SetColumn(frame, col, cells) ==
    [frame EXCEPT !.row = [k \in DOMAIN frame.row |->
                             [frame.row[k] EXCEPT ![col] = cells[k]]]]

\* ------------------------------------------------------------- field extractor
\* search(regex_pattern, text): group 1 of the first match, or None
search(pattern, text) ==
    IF text.blank THEN None ELSE text.cap[pattern]

parse_basic(frame, text, title) ==
    LET d1 == SetLoc(frame, title, "kWp", search("kWp", text))
        d2 == SetLoc(d1, title, "location", search("location", text))
    IN SetLoc(d2, title, "water_body_type", search("water_body_type", text))

parse_system(frame, text, title) ==
    LET d1 == SetLoc(frame, title, "panel_number", search("panel_number", text))
        d2 == SetLoc(d1, title, "panel_type", search("panel_type", text))
        d3 == SetLoc(d2, title, "covers_pct", search("covers_pct", text))
        d4 == SetLoc(d3, title, "covers_panels", search("covers_panels", text))
    IN SetLoc(d4, title, "covers_total", search("covers_total", text))

parse_advanced(frame, text, title) ==
    LET d1 == SetLoc(frame, title, "max_depth", search("max_depth", text))
    IN SetLoc(d1, title, "level_variation", search("level_variation", text))

MonthNo(w) ==
    CASE w = "January" -> 1 [] w = "February" -> 2 [] w = "March" -> 3
      [] w = "April" -> 4 [] w = "May" -> 5 [] w = "June" -> 6
      [] w = "July" -> 7 [] w = "August" -> 8 [] w = "September" -> 9
      [] w = "October" -> 10 [] w = "November" -> 11 [] w = "December" -> 12
      [] OTHER -> 0

\* datetime.strptime(s, '%B %Y'), then on ValueError datetime.strptime(s, '%Y')
strptime_interconnect(s) ==
    IF s = None THEN [err |-> Raise("TypeError", 147), date |-> None]
    ELSE IF MonthNo(s.word) > 0 /\ Len(s.digits) = 4
    THEN [err |-> NoErr, date |-> Datetime(int(s.digits), MonthNo(s.word))]
    ELSE IF s.word = "" /\ Len(s.digits) = 4
    THEN [err |-> NoErr, date |-> Datetime(int(s.digits), 1)]
    ELSE [err |-> Raise("ValueError", 149), date |-> None]

parse_date(frame, text, title) ==
    LET parsed == strptime_interconnect(search("effective_in", text))
        d1 == SetLoc(frame, title, "interconnection_date", parsed.date)
    IN IF parsed.err # NoErr THEN [err |-> parsed.err, df |-> frame]
       ELSE [err |-> NoErr,
             df |-> SetLoc(d1, title, "construction_duration",
                           search("construction_duration", text))]

\* parse_page without the `if text:` guard
parse_page_unguarded(frame, text, title) ==
    parse_date(parse_advanced(parse_system(parse_basic(frame, text, title),
                                           text, title), text, title),
               text, title)

\* parse_page(page, title) on the text of the page's paragraphs
parse_page(frame, text, title) ==
    IF text.blank THEN [err |-> NoErr, df |-> frame]
    ELSE parse_date(parse_advanced(parse_system(parse_basic(frame, text, title),
                                                text, title), text, title),
                    text, title)

\* ------------------------------------------------------------- dataset builder
\* make_decimal(s): `s is str` compares the cell with the type, so no branch
\* is taken and the function returns None
make_decimal(s) == None

\* the conversion without the fallback: a null capacity stays null
kWp_int_no_default(s) == IF ~isnull(s) THEN IntVal(int(s.s)) ELSE None

\* lambda s: int(s) if not pd.isnull(s) else 0
kWp_int(s) == IF ~isnull(s) THEN IntVal(int(s.s)) ELSE IntVal(0)

RECURSIVE PrefixLen(_, _)
\* the length of the longest prefix of s whose characters satisfy in(c)
PrefixLen(s, in) ==
    IF Len(s) > 0 /\ s[1] \in in THEN 1 + PrefixLen(Tail(s), in) ELSE 0

\* the characters of the labels r'\d+ (days|weeks?|months)' retains
LabelChars == Digits \cup {" ", "a", "d", "e", "h", "k", "m", "n", "o", "s", "t",
                           "w", "y"}

\* timedelta(**{name: n}).days
timedelta_days(name, n) ==
    CASE name = <<"d", "a", "y", "s">> -> [err |-> NoErr, days |-> n]
      [] name = <<"w", "e", "e", "k", "s">> -> [err |-> NoErr, days |-> 7 * n]
      [] name = <<"h", "o", "u", "r", "s">> -> [err |-> NoErr, days |-> n \div 24]
      [] name = <<"m", "i", "n", "u", "t", "e", "s">> ->
             [err |-> NoErr, days |-> n \div 1440]
      [] OTHER -> [err |-> Raise("TypeError", 273), days |-> 0]

\* to_days(s): re.match('(?P<num>\d+) (?P<name>[^s]+)s?', s), then
\* timedelta(**{name + 's': int(num)}).days
to_days(s) ==
    IF ~Truthy(s) THEN [err |-> NoErr, val |-> None]
    ELSE IF s.t # "str" THEN [err |-> Raise("TypeError", 272), val |-> None]
    ELSE LET nd == PrefixLen(s.s, Digits)
             rest == SubSeq(s.s, nd + 2, Len(s.s))
             nn == PrefixLen(rest, LabelChars \ {"s"})
             matched == nd > 0 /\ Len(s.s) > nd /\ s.s[nd + 1] = " " /\ nn > 0
             delta == timedelta_days(SubSeq(rest, 1, nn) \o <<"s">>,
                                     int(SubSeq(s.s, 1, nd)))
         IN IF ~matched THEN [err |-> Raise("AttributeError", 273), val |-> None]
            ELSE IF delta.err # NoErr THEN [err |-> delta.err, val |-> None]
            ELSE [err |-> NoErr, val |-> IntVal(delta.days)]

\* ------------------------------------------------------------- the ledger
\* last_downloaded: index label -> the cells of its row.  Rows written by
\* get_projects fill the column 'last_downloaded', rows written by
\* download_page the column 'last_download'; the other cell is NaN.
EmptyLedger == EmptyFn
LedgerRow == [last_downloaded |-> NaN, last_download |-> NaN]

\* last_downloaded.loc[label, col] = v
SetLedger(ledger, label, col, v) ==
    [k \in DOMAIN ledger \cup {label} |->
        IF k = label
        THEN [(IF k \in DOMAIN ledger THEN ledger[k] ELSE LedgerRow) EXCEPT ![col] = v]
        ELSE ledger[k]]

\* the text 'YYYY-MM-DD' that to_csv writes for the date of day d
DateStr(d) == [t |-> "str", ymd |-> d]
\* a text 'YYYY-MM' whose month starts on day d
MonthStr(d) == [t |-> "str", ym |-> d]

\* DataFrame.to_csv: dates become their ISO text, NaN an empty field
to_csv(ledger) ==
    [k \in DOMAIN ledger |->
        [c \in DOMAIN ledger[k] |->
            IF ledger[k][c].t = "date" THEN DateStr(ledger[k][c].day)
            ELSE ledger[k][c]]]

\* pd.read_csv(..., index_col=0): text cells stay text, empty fields are NaN
read_csv(csv) == csv

\* datetime.strptime(cell, '%Y-%m')
strptime_ym(cell) ==
    IF cell.t # "str" THEN [err |-> Raise("TypeError", 214), day |-> 0]
    ELSE IF "ym" \in DOMAIN cell THEN [err |-> NoErr, day |-> cell.ym]
    ELSE [err |-> Raise("ValueError", 214), day |-> 0]

\* ------------------------------------------------------------- state
VARIABLES
    run,              \* runs started so far
    now,              \* datetime.now() of the current run, in days
    pc,               \* where the current run stands
    err,              \* the exception that ended the run, or NoErr
    last_downloaded,  \* the ledger in memory
    ledgerFile,       \* last_downloaded.csv
    mainFile,         \* ciel_et_terre_projects/main.html
    files,            \* the detail files: path -> bytes
    main,             \* the list items of the index page of this run
    i,                \* the list item get_projects is at
    df,               \* the project table
    datasetFile,      \* floating_solar_dataset.csv
    written,          \* times this run wrote the dataset file
    fetchLog,         \* the addresses this run requested, in order
    completed,        \* the ledger labels of the downloads this run completed
    downloadedOn,     \* title -> day of its last completed download (0: none)
    ev                \* what the last step did

vars == <<run, now, pc, err, last_downloaded, ledgerFile, mainFile, files, main,
          i, df, datasetFile, written, fetchLog, completed, downloadedOn, ev>>

Absent == [exists |-> FALSE]
Present(content) == [exists |-> TRUE, content |-> content]

RECURSIVE SeqsUpTo(_, _)
SeqsUpTo(S, n) ==
    IF n = 0 THEN {<<>>}
    ELSE LET shorter == SeqsUpTo(S, n - 1)
         IN shorter \cup {Append(q, x) : q \in {r \in shorter : Len(r) = n - 1}, x \in S}

\* the index pages the site may serve
Listings == SeqsUpTo(Lis, MaxListing)

Init ==
    /\ run = 0
    /\ now = FirstDay
    /\ pc = "idle"
    /\ err = NoErr
    /\ last_downloaded = EmptyLedger
    /\ ledgerFile = Absent
    /\ mainFile = Absent
    /\ files = EmptyFn
    /\ main = <<>>
    /\ i = 1
    /\ df = EmptyFrame
    /\ datasetFile = Absent
    /\ written = 0
    /\ fetchLog = <<>>
    /\ completed = {}
    /\ downloadedOn = [t \in Titles |-> 0]
    /\ ev = [op |-> "none"]

\* __main__, lines 245-255: the clock, the empty table, the ledger reloaded
StartRun ==
    /\ pc \in {"idle", "done", "aborted"}
    /\ run < MaxRuns
    /\ \E gap \in RunGaps : now' = IF run = 0 THEN FirstDay ELSE now + gap
    /\ run' = run + 1
    /\ pc' = "get_projects"
    /\ err' = NoErr
    /\ last_downloaded' = IF ledgerFile.exists THEN read_csv(ledgerFile.content)
                          ELSE EmptyLedger
    /\ main' = <<>>
    /\ i' = 1
    /\ df' = EmptyFrame
    /\ written' = 0
    /\ fetchLog' = <<>>
    /\ completed' = {}
    /\ ev' = [op |-> "start"]
    /\ UNCHANGED <<ledgerFile, mainFile, files, datasetFile, downloadedOn>>

\* a cached detail file is removed between two runs
RemoveLocalFile ==
    /\ pc \in {"idle", "done", "aborted"}
    /\ run < MaxRuns
    /\ \E p \in DOMAIN files :
          files' = [q \in DOMAIN files \ {p} |-> files[q]]
    /\ pc' = "idle"
    /\ err' = NoErr
    /\ ev' = [op |-> "removed"]
    /\ UNCHANGED <<run, now, last_downloaded, ledgerFile, mainFile, main,
                   i, df, datasetFile, written, fetchLog, completed, downloadedOn>>

\* ------------------------------------------------------------- cache manager
\* download_page(link, title) against the answer resp of the site; title is
\* the path of the local file.  The globals it reads and writes are passed
\* in g and returned.
download_page(g, link, title, resp) ==
    LET got == fetch(link, resp)
        asked == [g EXCEPT !.fetchLog = Append(g.fetchLog, got.url)]
        opened == [asked EXCEPT !.files =
                      [p \in DOMAIN g.files \cup {title} |->
                          IF p = title THEN EmptyFile ELSE g.files[p]]]
        wrote == [opened EXCEPT !.files[title] = ArticleFile(resp.text)]
        ledger == SetLedger(g.last_downloaded, title, "last_download",
                            DateCell(g.now))
    IN IF got.err # NoErr THEN [asked EXCEPT !.err = got.err]
       ELSE IF ~resp.article THEN [opened EXCEPT !.err = Raise("IndexError", 185)]
       ELSE [wrote EXCEPT !.last_downloaded = ledger,
                          !.ledgerFile = Present(to_csv(ledger)),
                          !.completed = g.completed \cup {title}]

Globals ==
    [now |-> now, err |-> NoErr, last_downloaded |-> last_downloaded,
     ledgerFile |-> ledgerFile, files |-> files, fetchLog |-> fetchLog,
     completed |-> completed]

\* get_projects, lines 199-200: the index page is read from main.html
LoadIndexCached ==
    /\ pc = "get_projects"
    /\ "main" \in DOMAIN last_downloaded
    /\ IF mainFile.exists
       THEN /\ main' = mainFile.content
            /\ pc' = "li"
            /\ err' = NoErr
       ELSE /\ main' = main
            /\ pc' = "aborted"
            /\ err' = Raise("OSError", 200)
    /\ ev' = [op |-> "index", fetched |-> FALSE]
    /\ UNCHANGED <<run, now, last_downloaded, ledgerFile, mainFile, files, i, df,
                   datasetFile, written, fetchLog, completed, downloadedOn>>

\* get_projects, lines 201-205: the index page is fetched and kept
LoadIndexFetch ==
    /\ pc = "get_projects"
    /\ "main" \notin DOMAIN last_downloaded
    /\ \E status \in {200, 404}, lis \in Listings :
          LET got == fetch(IndexTarget, Response(status, FALSE, BlankText))
          IN /\ fetchLog' = Append(fetchLog, got.url)
             /\ IF got.err # NoErr
                THEN /\ pc' = "aborted"
                     /\ err' = got.err
                     /\ UNCHANGED <<main, mainFile, last_downloaded, completed>>
                ELSE /\ pc' = "li"
                     /\ err' = NoErr
                     /\ main' = lis
                     /\ mainFile' = Present(lis)
                     /\ last_downloaded' =
                           SetLedger(last_downloaded, "main", "last_downloaded",
                                     DateCell(now))
                     /\ completed' = completed \cup {"main"}
             /\ ev' = [op |-> "index", fetched |-> TRUE]
    /\ UNCHANGED <<run, now, ledgerFile, files, i, df, datasetFile, written,
                   downloadedOn>>

\* os.path.exists(file_path)
path_never_exists(fs, file_path) == FALSE

path_exists(fs, file_path) == file_path \in DOMAIN fs

\* whether the ledger makes get_projects download the page of title
\* (lines 213-222), or the exception of the date parse
needs_download(ledger, title, today) ==
    IF title \in DOMAIN ledger
    THEN LET recency == strptime_ym(ledger[title].last_downloaded)
         IN IF recency.err # NoErr THEN [err |-> recency.err, fetch |-> FALSE]
            ELSE [err |-> NoErr, fetch |-> today - recency.day > StaleDays]
    ELSE [err |-> NoErr, fetch |-> TRUE]

\* get_projects, lines 208-222, for the list item li
visit(g, frame, li, resp) ==
    LET nk == get_name_kwp(li)
        title == Title(nk.name, nk.kwp)
        link == get_link(li)
        file_path == Path(title)
        sourced == SetLoc(frame, title, "source", Str(link.href))
        need == needs_download(g.last_downloaded, title, g.now)
        base == [g |-> g, df |-> frame, title |-> title, op |-> "raised"]
    IN IF nk.err # NoErr THEN [base EXCEPT !.g.err = nk.err]
       ELSE IF link.err # NoErr THEN [base EXCEPT !.g.err = link.err]
       ELSE IF path_exists(g.files, file_path)
       THEN [base EXCEPT !.df = sourced, !.op = "reuse"]
       ELSE IF need.err # NoErr THEN [base EXCEPT !.df = sourced, !.g.err = need.err]
       ELSE IF ~need.fetch THEN [base EXCEPT !.df = sourced, !.op = "pass"]
       ELSE [base EXCEPT !.df = sourced, !.op = "download",
                         !.g = download_page(g, li.href, file_path, resp)]

VisitItem ==
    /\ pc = "li"
    /\ i <= Len(main)
    /\ \E resp \in SiteResponses :
          LET v == visit(Globals, df, main[i], resp)
          IN /\ df' = v.df
             /\ err' = v.g.err
             /\ pc' = IF v.g.err # NoErr THEN "aborted" ELSE "page"
             /\ last_downloaded' = v.g.last_downloaded
             /\ ledgerFile' = v.g.ledgerFile
             /\ files' = v.g.files
             /\ fetchLog' = v.g.fetchLog
             /\ completed' = v.g.completed
             /\ downloadedOn' =
                   IF v.op = "download" /\ v.g.err = NoErr
                   THEN [downloadedOn EXCEPT ![v.title] = now]
                   ELSE downloadedOn
             /\ ev' = [op |-> v.op, title |-> v.title,
                       had_file |-> Path(v.title) \in DOMAIN files]
    /\ UNCHANGED <<run, now, mainFile, main, i, datasetFile, written>>

\* get_projects, lines 223-225: the local file is read and parsed
ParseItem ==
    /\ pc = "page"
    /\ LET nk == get_name_kwp(main[i])
           title == Title(nk.name, nk.kwp)
           file_path == Path(title)
           parsed == parse_page(df, files[file_path].text, title)
       IN IF file_path \notin DOMAIN files
          THEN /\ err' = Raise("FileNotFoundError", 223)
               /\ pc' = "aborted"
               /\ UNCHANGED <<df, i>>
               /\ ev' = [op |-> "open", title |-> title]
          ELSE IF files[file_path] = EmptyFile
          THEN /\ err' = Raise("ParserError", 224)
               /\ pc' = "aborted"
               /\ UNCHANGED <<df, i>>
               /\ ev' = [op |-> "open", title |-> title]
          ELSE /\ err' = parsed.err
               /\ df' = parsed.df
               /\ pc' = IF parsed.err # NoErr THEN "aborted" ELSE "li"
               /\ i' = IF parsed.err # NoErr THEN i ELSE i + 1
               /\ ev' = [op |-> "parse", title |-> title,
                         text |-> files[file_path].text]
    /\ UNCHANGED <<run, now, last_downloaded, ledgerFile, mainFile, files, main,
                   datasetFile, written, fetchLog, completed, downloadedOn>>

\* ------------------------------------------------------------- __main__
PostUnchanged ==
    UNCHANGED <<run, now, last_downloaded, mainFile, files, main, i, fetchLog,
                completed, downloadedOn>>

\* Series.apply goes through the rows in table order: the place of the first
\* row among those whose cell makes the function raise, or 0
FirstRaise(frame, raising) ==
    LET bad == {k \in 1..Len(frame.order) : frame.order[k] \in raising}
    IN IF bad = {} THEN 0 ELSE CHOOSE k \in bad : \A j \in bad : k <= j

\* Decimals with the dataset file written before the conversions
Decimals_write_first ==
    /\ pc = "li"
    /\ i > Len(main)
    /\ df' = [df EXCEPT !.row = [k \in DOMAIN df.row |->
                 [c \in DOMAIN df.row[k] |->
                     IF c \in DecimalColumns THEN make_decimal(df.row[k][c])
                     ELSE df.row[k][c]]]]
    /\ pc' = "kWp"
    /\ ev' = [op |-> "make_decimal"]
    /\ datasetFile' = Present(df)
    /\ written' = written + 1
    /\ UNCHANGED <<err, ledgerFile>>
    /\ PostUnchanged

\* lines 262-266, once get_projects has returned: the decimal columns
Decimals ==
    /\ pc = "li"
    /\ i > Len(main)
    /\ df' = [df EXCEPT !.row = [k \in DOMAIN df.row |->
                 [c \in DOMAIN df.row[k] |->
                     IF c \in DecimalColumns THEN make_decimal(df.row[k][c])
                     ELSE df.row[k][c]]]]
    /\ pc' = "kWp"
    /\ ev' = [op |-> "make_decimal"]
    /\ UNCHANGED <<err, ledgerFile, datasetFile, written>>
    /\ PostUnchanged

\* line 267: df['kWp'].apply(lambda s: int(s) if not pd.isnull(s) else 0)
Capacity ==
    /\ pc = "kWp"
    /\ df' = SetColumn(df, "kWp", [k \in DOMAIN df.row |-> kWp_int(df.row[k].kWp)])
    /\ pc' = "panel_number"
    /\ ev' = [op |-> "kWp"]
    /\ UNCHANGED <<err, ledgerFile, datasetFile, written>>
    /\ PostUnchanged

\* line 268: df['panel_number'].apply(lambda s: int(s) if not pd.isnull(s)).
\* The conditional has no else arm, so what a null cell gives is not fixed by
\* the line: the step either raises or leaves the cell null.
PanelNumber ==
    /\ pc = "panel_number"
    /\ \E null_raises \in BOOLEAN :
          LET raising == {t \in DOMAIN df.row :
                             isnull(df.row[t].panel_number) /\ null_raises}
              converted == [k \in DOMAIN df.row |->
                              IF isnull(df.row[k].panel_number) THEN None
                              ELSE IntVal(int(df.row[k].panel_number.s))]
          IN IF FirstRaise(df, raising) # 0
             THEN /\ err' = Raise("TypeError", 268)
                  /\ pc' = "aborted"
                  /\ df' = df
             ELSE /\ err' = err
                  /\ pc' = "construction_duration"
                  /\ df' = SetColumn(df, "panel_number", converted)
    /\ ev' = [op |-> "panel_number"]
    /\ UNCHANGED <<ledgerFile, datasetFile, written>>
    /\ PostUnchanged

\* lines 270-277: df['construction_duration'].apply(to_days)
Durations ==
    /\ pc = "construction_duration"
    /\ LET raising == {t \in DOMAIN df.row :
                          to_days(df.row[t].construction_duration).err # NoErr}
           k == FirstRaise(df, raising)
       IN IF k # 0
          THEN /\ err' = to_days(df.row[df.order[k]].construction_duration).err
               /\ pc' = "aborted"
               /\ df' = df
          ELSE /\ err' = err
               /\ pc' = "to_csv"
               /\ df' = SetColumn(df, "construction_duration",
                         [t \in DOMAIN df.row |->
                             to_days(df.row[t].construction_duration).val])
    /\ ev' = [op |-> "to_days"]
    /\ UNCHANGED <<ledgerFile, datasetFile, written>>
    /\ PostUnchanged

\* line 280: df.to_csv('floating_solar_dataset.csv')
WriteDataset ==
    /\ pc = "to_csv"
    /\ datasetFile' = Present(df)
    /\ written' = written + 1
    /\ pc' = "ledger_to_csv"
    /\ ev' = [op |-> "to_csv"]
    /\ UNCHANGED <<err, df, ledgerFile>>
    /\ PostUnchanged

\* line 281: last_downloaded.to_csv('last_downloaded.csv')
SaveLedger ==
    /\ pc = "ledger_to_csv"
    /\ ledgerFile' = Present(to_csv(last_downloaded))
    /\ pc' = "done"
    /\ ev' = [op |-> "ledger_to_csv"]
    /\ UNCHANGED <<err, df, datasetFile, written>>
    /\ PostUnchanged

Next ==
    \/ StartRun
    \/ RemoveLocalFile
    \/ LoadIndexCached
    \/ LoadIndexFetch
    \/ VisitItem
    \/ ParseItem
    \/ Decimals
    \/ Capacity
    \/ PanelNumber
    \/ Durations
    \/ WriteDataset
    \/ SaveLedger

Spec == Init /\ [][Next]_vars

TypeOK ==
    /\ run \in 0..MaxRuns
    /\ pc \in {"idle", "get_projects", "li", "page", "kWp", "panel_number",
               "construction_duration", "to_csv", "ledger_to_csv", "done",
               "aborted"}
    /\ (pc = "aborted") = (err # NoErr)
    /\ Len(main) <= MaxListing

\* ------------------------------------------------------------- properties
\* the list item get_projects is at, once its title and link are found
AtItem == pc = "li" /\ i <= Len(main) /\ main[i].div /\ main[i].a
ItemTitle == Title(main[i].name, main[i].kwp)
Fetched == Len(fetchLog') > Len(fetchLog)

\* the text of the local file of a title
FileText(title) == files[Path(title)].text

\* the day a ledger cell stands for
CellDay(c) ==
    IF "day" \in DOMAIN c THEN c.day
    ELSE IF "ymd" \in DOMAIN c THEN c.ymd ELSE c.ym

\* the dates the ledger holds for a project: the cells of the rows labelled
\* with its title or with the path of its file
LedgerDays(ledger, title) ==
    {CellDay(ledger[k][c]) : <<k, c>> \in
        {kc \in (DOMAIN ledger \cap {title, Path(title)}) \X DOMAIN LedgerRow :
            ledger[kc[1]][kc[2]] # NaN}}

\* C1: when an earlier run downloaded the page of a project, the run started
\* within 30 days of that download and the local file is gone, get_projects
\* finds the project's date under the label and column it looks up, and it
\* requests nothing for the project.
C1_LedgerRoundTrip ==
    [][(/\ AtItem
        /\ Path(ItemTitle) \notin DOMAIN files
        /\ downloadedOn[ItemTitle] > 0
        /\ now - downloadedOn[ItemTitle] <= StaleDays)
       => (/\ ItemTitle \in DOMAIN last_downloaded
           /\ last_downloaded[ItemTitle].last_downloaded
                 = DateStr(downloadedOn[ItemTitle])
           /\ ~Fetched)]_vars

\* C2: a project whose local file exists when get_projects reaches it is
\* not requested, its file and the ledger stay as they are, and the next
\* step reads that file, whatever the ledger holds for it.
C2_ReuseExistingFile ==
    [][/\ (AtItem /\ Path(ItemTitle) \in DOMAIN files)
          => (/\ ~Fetched
              /\ files' = files
              /\ last_downloaded' = last_downloaded
              /\ ledgerFile' = ledgerFile
              /\ pc' = "page"
              /\ ev'.op = "reuse")
       /\ (pc = "page" /\ ev.op = "reuse")
          => (/\ ev'.op \in {"parse", "open"}
              /\ ev'.title = ev.title
              /\ ev'.op = "parse" => ev'.text = FileText(ev.title)
              /\ ev'.op = "open" => files[Path(ev.title)] = EmptyFile)]_vars

\* a reused file whose ledger entry is older than 30 days
C2_Witness ==
    /\ pc = "page"
    /\ ev.op = "reuse"
    /\ fetchLog = <<>>
    /\ LedgerDays(last_downloaded, ev.title) # {}
    /\ \A d \in LedgerDays(last_downloaded, ev.title) : now - d > StaleDays

\* C3: a project with no local file is requested exactly when the ledger
\* holds no date for it or the date is more than 30 days old; with a date of
\* at most 30 days nothing is requested and no file is created.
C3_FetchIffAbsentOrStale ==
    [][(AtItem /\ Path(ItemTitle) \notin DOMAIN files)
       => LET days == LedgerDays(last_downloaded, ItemTitle)
              fresh == \E d \in days : now - d <= StaleDays
          IN /\ Fetched <=> ~fresh
             /\ fresh => files' = files]_vars

\* C4: while a run is under way the ledger file holds today's date for every
\* download the run has completed, the index page included.
C4_LedgerFileCoversDownloads ==
    pc \notin {"idle"} =>
        \A label \in completed :
            /\ ledgerFile.exists
            /\ label \in DOMAIN ledgerFile.content
            /\ \E c \in DOMAIN LedgerRow :
                  ledgerFile.content[label][c] = DateStr(now)

\* C5: a download that fails is requested once, aborts the run, and leaves
\* the ledger, the ledger file and the project's local file as they were.
C5_FailedDownloadLeavesNoTrace ==
    [][(Fetched /\ pc' = "aborted")
       => (/\ Len(fetchLog') = Len(fetchLog) + 1
           /\ last_downloaded' = last_downloaded
           /\ ledgerFile' = ledgerFile
           /\ pc = "li" => Path(ItemTitle) \notin DOMAIN files')]_vars

Converted(frame) ==
    \A t \in DOMAIN frame.row :
        /\ frame.row[t].kWp.t = "int"
        /\ frame.row[t].construction_duration.t \in {"int", "None"}
        /\ \A c \in DecimalColumns : frame.row[t][c] = None

\* C6: a run (under way, finished or aborted) has written the dataset file
\* at most once, and only after every list item was processed and the
\* conversions were done; a finished run has written it, an aborted run has
\* not.
C6_DatasetWrittenOnceAtEnd ==
    pc # "idle" =>
        /\ written <= 1
        /\ written = 1 =>
              /\ pc \in {"ledger_to_csv", "done"}
              /\ i > Len(main)
              /\ datasetFile = Present(df)
              /\ Converted(df)
        /\ pc = "aborted" => written = 0
        /\ pc = "done" => written = 1

\* a finished run with a project in the dataset
C6_Witness ==
    /\ pc = "done"
    /\ written = 1
    /\ Len(df.order) >= 1
    /\ datasetFile = Present(df)

\* C7, as stated: a field whose pattern has no match in the parsed text is
\* null in the row and raises nothing, and a text with no match for
\* 'effective in ...' makes parse_page fail and the run abort.
C7_NoMatchNullDateFatal ==
    ev.op = "parse" =>
        /\ \A f \in NonDateFields :
              search(f, ev.text) = None => isnull(df.row[ev.title][f])
        /\ search("effective_in", ev.text) = None => pc = "aborted"

\* C7, amended: a field whose pattern has no match is null in the row, and
\* parse_page raises only from the date: a non-empty text with no match for
\* 'effective in ...' aborts the run with the TypeError of line 147, while an
\* empty text is not parsed at all and raises nothing.
C7_NoMatchNullDateFatalUnlessEmpty ==
    ev.op = "parse" =>
        /\ \A f \in NonDateFields :
              search(f, ev.text) = None => isnull(df.row[ev.title][f])
        /\ (~ev.text.blank /\ search("effective_in", ev.text) = None)
              => (pc = "aborted" /\ err = Raise("TypeError", 147))
        /\ pc = "aborted" => err.line \in {147, 149}
        /\ ev.text.blank =>
              /\ pc = "li"
              /\ err = NoErr
              /\ \A c \in Columns : df.row[ev.title][c] = NaN

\* a text that no pattern matches has been parsed: every field of the row is
\* null and the date has aborted the run
C7_Witness ==
    /\ ev.op = "parse"
    /\ ev.text = NoDateText
    /\ pc = "aborted"
    /\ err = Raise("TypeError", 147)
    /\ \A f \in NonDateFields : isnull(df.row[ev.title][f])

RECURSIVE Denoted(_, _)
\* the number a digit string denotes, read from the left
Denoted(s, acc) ==
    IF s = <<>> THEN acc ELSE Denoted(Tail(s), 10 * acc + DigitVal(Head(s)))

\* the capacity the field extractor found for a row
FoundCapacity(title) == search("kWp", FileText(title))

PastCapacity ==
    \/ pc \in {"panel_number", "construction_duration", "to_csv", "ledger_to_csv",
               "done"}
    \/ pc = "aborted" /\ err.line \in {268, 272, 273}

FoundDuration(title) == search("construction_duration", FileText(title))

\* the count and the unit of a retained label '<N> <unit>'
LabelCount(s) == Denoted(SubSeq(s, 1, PrefixLen(s, Digits)), 0)
LabelUnit(s) == SubSeq(s, PrefixLen(s, Digits) + 2, Len(s))

\* C9: to_days raises on no label the field extractor retains; once the
\* conversion is done a row holds N for days, 7*N for weeks, an integer for
\* months, and null for an absent label.
C9_ToDaysTotal ==
    /\ pc = "aborted" => err # Raise("TypeError", 273)
    /\ pc \in {"to_csv", "ledger_to_csv", "done"} =>
          \A t \in DOMAIN df.row :
              LET s == FoundDuration(t)
                  cell == df.row[t].construction_duration
              IN IF s = None THEN cell = None
                 ELSE CASE LabelUnit(s.s) \in {<<"d", "a", "y">>, <<"d", "a", "y", "s">>}
                             -> cell = IntVal(LabelCount(s.s))
                        [] LabelUnit(s.s) \in {<<"w", "e", "e", "k">>,
                                               <<"w", "e", "e", "k", "s">>}
                             -> cell = IntVal(7 * LabelCount(s.s))
                        [] OTHER -> cell.t = "int"

RECURSIVE FirstSeen(_, _)
\* the elements of a sequence in the order of their first occurrence
FirstSeen(q, seen) ==
    IF q = <<>> THEN <<>>
    ELSE IF Head(q) \in seen THEN FirstSeen(Tail(q), seen)
    ELSE <<Head(q)>> \o FirstSeen(Tail(q), seen \cup {Head(q)})

ListedTitles == [k \in 1..Len(main) |-> Title(main[k].name, main[k].kwp)]
LastItem(title) ==
    main[CHOOSE k \in 1..Len(main) :
            /\ ListedTitles[k] = title
            /\ \A j \in 1..Len(main) : ListedTitles[j] = title => j <= k]

\* C10: when get_projects has gone through the listing without aborting, the
\* table has one row per distinct title, in the order the titles were first
\* listed, and a row holds what the last list item of its title wrote: that
\* item's link and the fields parsed for it.
C10_RowsByFirstDiscovery ==
    (pc = "li" /\ i > Len(main)) =>
        /\ df.order = FirstSeen(ListedTitles, {})
        /\ DOMAIN df.row = {ListedTitles[k] : k \in 1..Len(main)}
        /\ \A t \in DOMAIN df.row :
              /\ df.row[t].source = Str(LastItem(t).href)
              /\ \A f \in NonDateFields :
                    df.row[t][f] = IF FileText(t).blank THEN NaN
                                   ELSE search(f, FileText(t))

\* two list items with one title and two links have been processed
C10_Witness ==
    /\ pc = "li"
    /\ i > Len(main)
    /\ main = <<LiA, LiA2>>
    /\ df.order = <<Title(LiA.name, LiA.kwp)>>
    /\ df.row[Title(LiA.name, LiA.kwp)].source = Str(LiA2.href)

====
